---- MODULE Spec2Model ----
(***************************************************************************)
(* A model of the code-gists programs of AnyNotes:                         *)
(*                                                                         *)
(*   replicate-console-gui.c  a window whose message loop (WinMain /       *)
(*       WindowProc) shares the text buffer textBuffer with a background   *)
(*       thread (RunningLoop); both call AppendText.  button.c has the     *)
(*       same WinMain / RunningLoop skeleton.                              *)
(*   systray.c                a console program whose main thread prints   *)
(*       a status line every second while a GUI thread owns a tray icon    *)
(*       and a hidden window (GuiThread / WndProc).                        *)
(*                                                                         *)
(* Specifications:                                                         *)
(*   SpecAppend  AppendText and the WM_SIZE handler run to completion,     *)
(*               one call after the other, on arbitrary texts.             *)
(*   SpecGui     replicate-console-gui.c as it runs: the WinMain thread    *)
(*               and the RunningLoop thread interleave at every access to  *)
(*               the memory they share.                                    *)
(*   SpecTray    systray.c as it runs: main's loop, the GUI thread and the *)
(*               messages posted to it.  FairSpecTray adds that both       *)
(*               threads keep being scheduled.                             *)
(***************************************************************************)
EXTENDS Integers, Sequences, FiniteSets, TLC

(***************************************************************************)
(* Sizes.  The source declares textBuffer[1024 * 10] and                   *)
(* formattedText[2048]; the model keeps their order (the scratch buffer is *)
(* smaller than the text buffer) at sizes TLC can enumerate.               *)
(***************************************************************************)
TextBufferSize == 11

FormattedSize == 8

\* sizeof(textBuffer) - 1: the longest string textBuffer can hold.
Capacity == TextBufferSize - 1

\* A size_t below zero wraps to a value larger than every length in the model.
SizeMax == 2147483647

\* How many bytes of the memory behind textBuffer the model holds.  A store
\* or a read that would go further is not followed.
MaxBehind == 4

\* The array and the memory behind it take the indexes 0 .. MemorySize - 1.
MemorySize == TextBufferSize + MaxBehind

(***************************************************************************)
(* Characters.  A C string is modelled by the sequence of its characters   *)
(* before the terminating NUL.                                             *)
(***************************************************************************)
NUL == "NUL"

CR == "\r"

LF == "\n"

Fill(n, c) == [i \in 1..n |-> c]

\* A byte behind textBuffer the program has not stored to: the array is
\* followed by memory the program does not control, and a read may find a
\* NUL there or any other value.
Junk == "?"

\* The memory behind textBuffer before the program stores into it.
InitBehind == [i \in TextBufferSize..(MemorySize - 1) |-> Junk]

\* What a read that runs past the end of textBuffer can meet in the memory
\* mem behind it before its NUL: the bytes the program stored there, up to
\* the first NUL among them, and bytes it never stored, each of which may or
\* may not end the read.  The last byte the model holds ends every read.
Behinds(mem) ==
  { [i \in 1..n |-> mem[TextBufferSize + i - 1]] :
      n \in { m \in 0..(MaxBehind - 1) :
                /\ \A i \in 1..m : mem[TextBufferSize + i - 1] # NUL
                /\ mem[TextBufferSize + m] \in {NUL, Junk} } }

\* The literals the programs append, shortened in step with the buffers
\* (source: "\tMain code is Running\n", "\tMinimize button clicked\n\n",
\* "\tMaximize button clicked\n\n").
RunningText == <<"R", LF>>

MinimizeText == <<"m", LF, LF>>

MaximizeText == <<"M", LF, LF>>

\* A text whose newline is met at the last index the loop admits.
BoundaryText == Fill(FormattedSize - 3, "x") \o <<LF>>

\* A text longer than the scratch buffer, and one longer than textBuffer.
ScratchLongText == Fill(FormattedSize, "y")

BufferLongText == Fill(TextBufferSize + 1, "z")

\* The texts handed to AppendText in SpecAppend.
Texts ==
  { <<>>, <<"a">>, <<LF>>, <<"a", LF>>, <<"a", "b", "c">>,
    RunningText, MinimizeText, MaximizeText,
    BoundaryText, ScratchLongText, BufferLongText }

SizeKinds == {"SIZE_RESTORED", "SIZE_MINIMIZED", "SIZE_MAXIMIZED"}

VARIABLES
  textBuffer,    \* char textBuffer[]: index -> character, NUL past the string
  editText,      \* the window text of hEdit, as last set by SetWindowText
  memory,        \* the memory behind textBuffer: index -> byte, Junk where
                 \* the program has not stored
  overrun,       \* history: a byte was stored past the end of textBuffer
  lastCall,      \* history: the last AppendText call and what it found
  expected,      \* history: the texts accepted so far, normalized and joined
  lossy,         \* history: the scratch buffer cut an accepted text short
  running,       \* bool running
  pc,            \* where each thread of the window program stands
  frame,         \* each thread's AppendText call: its argument and locals
  wParam,        \* the kind of the WM_SIZE message WindowProc is handling
  hEdit,         \* the edit control: "none", "null", "valid" or "destroyed"
  hThread,       \* the thread handle: "none", "open" or "closed"
  exitCode,      \* what main or WinMain returned ("0", "1"), "none" while it runs
  afterStop,     \* history: AppendText calls RunningLoop ended after the stop
  isMinimized,   \* BOOL isMinimized (systray.c)
  hWndConsole,   \* the console window: "hidden", "shown", or "freed"
  nid,           \* the tray icon: "none", "added" or "deleted"
  hWndHidden,    \* the hidden window: "none", "null", "valid" or "destroyed"
  msgQueue,      \* the messages posted to the GUI thread and not yet taken
  quitPosted,    \* PostQuitMessage was called
  exitCalls,     \* history: how often ExitApplication was entered
  lastEvent      \* history: the last message WndProc handled and what it found

\* running, pc and exitCode serve both programs: each declares its own
\* running and main, and a specification runs one program.
bufVars == <<textBuffer, memory, editText, overrun>>

histVars == <<lastCall, expected, lossy>>

windowVars == <<frame, wParam, hEdit, hThread, afterStop>>

trayHist == <<exitCalls, lastEvent>>

trayVars == <<isMinimized, hWndConsole, nid, hWndHidden, msgQueue, quitPosted, trayHist>>

guiVars == <<running, pc, exitCode, windowVars, trayVars>>

vars == <<bufVars, histVars, guiVars>>

(***************************************************************************)
(* C library on textBuffer.                                                *)
(***************************************************************************)
Min(a, b) == IF a < b THEN a ELSE b

\* The string ends inside the array.
Terminated(buf) == \E i \in DOMAIN buf : buf[i] = NUL

\* strlen(textBuffer): the index of the first NUL.  With no NUL inside the
\* array the scan leaves it and runs on through behind, the non-NUL bytes
\* that follow the array.
StrLen(buf, behind) ==
  IF Terminated(buf)
  THEN CHOOSE i \in DOMAIN buf : buf[i] = NUL /\ \A h \in 0..(i - 1) : buf[h] # NUL
  ELSE TextBufferSize + Len(behind)

\* The string textBuffer holds, as SetWindowText reads it: the bytes up to
\* the first NUL, those behind the array included when the array has none.
CStr(buf, behind) ==
  [i \in 1..StrLen(buf, behind) |->
     IF i <= TextBufferSize THEN buf[i - 1] ELSE behind[i - TextBufferSize]]

\* The byte at index i of the array buf or of the memory mem behind it.
Byte(buf, mem, i) == IF i \in DOMAIN buf THEN buf[i] ELSE mem[i]

\* The indexes at which a read of the string that has come to index from
\* can meet its NUL: the first stored NUL, or before it a byte the program
\* never stored.
ReadEnds(buf, mem, from) ==
  { e \in from..(MemorySize - 1) :
      /\ \A i \in from..(e - 1) : Byte(buf, mem, i) # NUL
      /\ Byte(buf, mem, e) \in {NUL, Junk} }

\* The bytes at the indexes from .. to - 1.
Bytes(buf, mem, from, to) == [i \in 1..(to - from) |-> Byte(buf, mem, from + i - 1)]

\* The strings a read of textBuffer can yield that has the bytes read behind
\* it and goes on from index Len(read).  With nothing read yet these are
\* CStr(buf, b) for the b in Behinds(mem).
ReadOn(buf, mem, read) ==
  { read \o Bytes(buf, mem, Len(read), e) : e \in ReadEnds(buf, mem, Len(read)) }

\* What a read of the string in buf meets behind the array: nothing when the
\* string ends inside the array.
Met(buf, mem) == IF Terminated(buf) THEN {<<>>} ELSE Behinds(mem)

\* One byte store into buf, the array or the memory behind it; a store
\* outside buf is not kept in buf.
WriteByte(buf, idx, c) ==
  IF idx \in DOMAIN buf THEN [buf EXCEPT ![idx] = c] ELSE buf

RECURSIVE StrnCatCopy(_, _, _, _, _)
StrnCatCopy(buf, dst, src, n, copied) ==
  IF copied < n /\ copied < Len(src)
  THEN StrnCatCopy(WriteByte(buf, dst + copied, src[copied + 1]), dst, src, n, copied + 1)
  ELSE WriteByte(buf, dst + copied, NUL)

\* strcpy where strcat was meant: the copy starts at the front of buf.
StrnCatFromStart(buf, src, n, behind) == StrnCatCopy(buf, 0, src, n, 0)

\* strncat(buf, src, n): at most n characters of src, then a NUL.
StrnCat(buf, src, n, behind) == StrnCatCopy(buf, StrLen(buf, behind), src, n, 0)

\* The index of the NUL strncat writes: the last byte it stores.
StrnCatEnd(buf, src, n, behind) == StrLen(buf, behind) + Min(n, Len(src))

(***************************************************************************)
(* AppendText (replicate-console-gui.c).                                   *)
(***************************************************************************)
RECURSIVE FormatLoop(_, _, _)
\* The for loop: i indexes newText (0-based), out is formattedText[0..j-1].
FormatLoop(newText, i, out) ==
  IF i < Len(newText) /\ Len(out) < FormattedSize - 2
  THEN IF newText[i + 1] = LF
       THEN FormatLoop(newText, i + 1, out \o <<CR, LF>>)
       ELSE FormatLoop(newText, i + 1, Append(out, newText[i + 1]))
  ELSE out

\* A loop that copies the text as it is, newlines unconverted.
FormattedTextRaw(newText) == SubSeq(newText, 1, Min(Len(newText), FormattedSize - 2))

\* A loop without the bound on j: the whole text goes into the scratch buffer.
FormattedTextWhole(newText) == [i \in 1..Len(newText) |-> newText[i]]

\* formattedText once the loop has ended and the NUL is stored at index j.
FormattedText(newText) == FormatLoop(newText, 0, <<>>)

\* The classic strncat slip: the size of the array, not the space left.
BufferSpaceLeftWholeArray(buf, behind) == TextBufferSize - 1

\* size_t bufferSpaceLeft = sizeof(textBuffer) - strlen(textBuffer) - 1;
BufferSpaceLeft(buf, behind) ==
  IF TextBufferSize - StrLen(buf, behind) - 1 >= 0
  THEN TextBufferSize - StrLen(buf, behind) - 1
  ELSE SizeMax

\* An accepting test that lets a text through when it fills the space exactly
\* or exceeds it.
HasSpaceAlways(bufferSpaceLeft, formattedText) == TRUE

\* if (bufferSpaceLeft > strlen(formattedText))
HasSpace(bufferSpaceLeft, formattedText) == bufferSpaceLeft > Len(formattedText)

\* Truncate-to-fit: strncat is called whether or not the text fits, and
\* copies what the space left allows.
AppendTextBufferTruncating(buf, newText, behind) ==
  StrnCat(buf, FormattedText(newText), BufferSpaceLeft(buf, behind), behind)

\* textBuffer after the call.
AppendTextBuffer(buf, newText, behind) ==
  IF HasSpace(BufferSpaceLeft(buf, behind), FormattedText(newText))
  THEN StrnCat(buf, FormattedText(newText), BufferSpaceLeft(buf, behind), behind)
  ELSE buf

\* The memory mem behind textBuffer after the call: the bytes strncat stored
\* past the end of the array are there.
AppendTextBehind(buf, mem, newText, behind) ==
  IF HasSpace(BufferSpaceLeft(buf, behind), FormattedText(newText))
  THEN StrnCatCopy(mem, StrLen(buf, behind), FormattedText(newText),
                   BufferSpaceLeft(buf, behind), 0)
  ELSE mem

\* Whether the call stores a byte past the end of textBuffer.
AppendTextOverruns(buf, newText, behind) ==
  /\ HasSpace(BufferSpaceLeft(buf, behind), FormattedText(newText))
  /\ StrnCatEnd(buf, FormattedText(newText), BufferSpaceLeft(buf, behind), behind)
       >= TextBufferSize

(***************************************************************************)
(* What the specification of the log buffer asks for, for comparison.      *)
(***************************************************************************)
RECURSIVE IdealNormalize(_)
\* Each logical newline replaced by the two-character line ending.
IdealNormalize(text) ==
  IF text = <<>> THEN <<>>
  ELSE (IF Head(text) = LF THEN <<CR, LF>> ELSE <<Head(text)>>)
         \o IdealNormalize(Tail(text))

NewlineCount(text) == Cardinality({i \in DOMAIN text : text[i] = LF})

IsPrefix(s, t) == Len(s) <= Len(t) /\ SubSeq(t, 1, Len(s)) = s

\* The scratch buffer takes the whole text: the loop reaches the last
\* character with j still below sizeof(formattedText) - 2.
FitsScratch(text) ==
  \/ text = <<>>
  \/ Len(IdealNormalize(SubSeq(text, 1, Len(text) - 1))) < FormattedSize - 2

NoCall == [made |-> FALSE]

\* The history record of one AppendText(newText) call on buffer buf.
CallRecord(buf, newText, behind) ==
  [ made |-> TRUE,
    text |-> newText,
    before |-> CStr(buf, behind),
    space |-> BufferSpaceLeft(buf, behind),
    accepted |-> HasSpace(BufferSpaceLeft(buf, behind), FormattedText(newText)) ]

(***************************************************************************)
(* SpecAppend: calls made one after the other.                             *)
(***************************************************************************)
\* read: what a SetWindowText that RunningLoop's stores overlap has read
\* of textBuffer so far.
NoFrame == [newText |-> <<>>, formattedText |-> <<>>, bufferSpaceLeft |-> 0,
            dst |-> 0, copied |-> 0, read |-> <<>>]

\* char textBuffer[1024 * 10] = ""; and an edit control without text.
InitBuffer ==
  /\ textBuffer = [i \in 0..(TextBufferSize - 1) |-> NUL]
  /\ memory = InitBehind
  /\ editText = <<>>
  /\ overrun = FALSE
  /\ lastCall = NoCall
  /\ expected = <<>>
  /\ lossy = FALSE

\* No AppendText call is under way and no thread handle exists.
InitFrames ==
  /\ frame = [t \in {"main", "loop"} |-> NoFrame]
  /\ wParam = "none"
  /\ hThread = "none"
  /\ afterStop = 0

\* history: WndProc has handled no message yet.
NoEvent ==
  [ event |-> "none", wasRunning |-> TRUE, wasMinimized |-> FALSE,
    wasConsole |-> "hidden", afterQuit |-> FALSE, calls |-> <<>> ]

\* systray.c is not running.
InitTrayIdle ==
  /\ isMinimized = FALSE
  /\ hWndConsole = "hidden"
  /\ nid = "none"
  /\ hWndHidden = "none"
  /\ msgQueue = <<>>
  /\ quitPosted = FALSE
  /\ exitCalls = 0
  /\ lastEvent = NoEvent

\* replicate-console-gui.c is not running.
InitWindowIdle == InitFrames /\ hEdit = "none"

\* The globals as the program image holds them when WinMain starts.
InitGlobals ==
  /\ InitBuffer
  /\ InitFrames
  /\ InitTrayIdle
  /\ running = TRUE
  /\ exitCode = "none"

\* The window and its edit control exist; no second thread takes part.
InitAppend ==
  /\ InitGlobals
  /\ hEdit = "valid"
  /\ pc = [main |-> "GetMessage", loop |-> "none"]

\* AppendText(hEdit, newText), whole.
AppendText(newText) ==
  /\ \E met \in Met(textBuffer, memory) :
       /\ textBuffer' = AppendTextBuffer(textBuffer, newText, met)
       /\ memory' = AppendTextBehind(textBuffer, memory, newText, met)
       /\ overrun' = (overrun \/ AppendTextOverruns(textBuffer, newText, met))
       /\ lastCall' = CallRecord(textBuffer, newText, met)
  /\ \E shown \in Met(textBuffer', memory') : editText' = CStr(textBuffer', shown)
  /\ expected' = IF lastCall'.accepted
                 THEN expected \o IdealNormalize(newText)
                 ELSE expected
  /\ lossy' = (lossy \/ (lastCall'.accepted /\ ~FitsScratch(newText)))
  /\ UNCHANGED guiVars

\* An AppendText call with any text.
Call == \E newText \in Texts : AppendText(newText)

\* WindowProc, case WM_SIZE, whole: SetWindowText(hEdit, textBuffer), then
\* the line the kind of resize appends.
WmSize(kind) ==
  IF kind = "SIZE_MINIMIZED" THEN AppendText(MinimizeText)
  ELSE IF kind = "SIZE_MAXIMIZED" THEN AppendText(MaximizeText)
  ELSE /\ \E met \in Met(textBuffer, memory) : editText' = CStr(textBuffer, met)
       /\ UNCHANGED <<textBuffer, memory, overrun, histVars, guiVars>>

Resize == \E kind \in SizeKinds : WmSize(kind)

NextAppend == Call \/ Resize

SpecAppend == InitAppend /\ [][NextAppend]_vars

(***************************************************************************)
(* SpecGui: replicate-console-gui.c, two threads.  "main" runs WinMain and,*)
(* inside DispatchMessage, WindowProc; "loop" runs RunningLoop.  Each step *)
(* holds at most one access to the memory the threads share (textBuffer,   *)
(* running); nothing in the source orders those accesses.                  *)
(***************************************************************************)
Threads == {"main", "loop"}

\* The history counter afterStop stops counting here.
MaxAfterStop == 3

InitGui ==
  /\ InitGlobals
  /\ hEdit = "none"
  /\ pc = [main |-> "CreateWindowEx", loop |-> "none"]

\* What SetWindowText(hEdit, textBuffer) leaves as the control's text when
\* it reads text from textBuffer: a null or destroyed handle makes the call
\* fail.
SetWindowText(text) == IF hEdit = "valid" THEN text ELSE editText

\* The index of the byte thread t's strncat stores next, and of its NUL.
StoreAt(t) == frame[t].dst + frame[t].copied

StoreEnd(t) == frame[t].dst + Min(frame[t].bufferSpaceLeft, Len(frame[t].formattedText))

\* SetWindowText(hEdit, textBuffer) on WinMain's thread reads textBuffer byte
\* by byte while RunningLoop's strncat stores into it, and nothing orders the
\* two.  Here the read comes to index to, over bytes RunningLoop's strncat
\* has yet to store, before those stores happen.  (Reading a byte that
\* strncat does not store to comes to the same early or late, and is left
\* to the step that ends the read.)
SetWindowTextRead(to) ==
  /\ pc["main"] \in {"WM_SIZE", "SetWindowText"}
  /\ hEdit = "valid"
  /\ pc["loop"] = "strncat_copy"
  /\ LET from == Len(frame["main"].read)
     IN /\ to > from
        /\ to > StoreAt("loop")
        /\ to <= StoreEnd("loop") + 1
        /\ to <= MemorySize - 1
        /\ \A i \in from..(to - 1) : Byte(textBuffer, memory, i) # NUL
        /\ frame' = [frame EXCEPT !["main"].read =
                                    @ \o Bytes(textBuffer, memory, from, to)]
  /\ UNCHANGED <<bufVars, histVars, trayVars, running, pc, wParam, hEdit, hThread,
                 exitCode, afterStop>>

\* WinMain up to the test of hwnd.  CreateWindowEx fails (return 0) or
\* sends WM_CREATE, which creates the edit control or, after a message box,
\* leaves hEdit NULL.
CreateWindow ==
  /\ pc["main"] = "CreateWindowEx"
  /\ \E made \in BOOLEAN :
       IF made
       THEN /\ \E h \in {"valid", "null"} : hEdit' = h
            /\ pc' = [pc EXCEPT !["main"] = "ShowWindow"]
            /\ UNCHANGED exitCode
       ELSE /\ exitCode' = "0"
            /\ pc' = [pc EXCEPT !["main"] = "exited"]
            /\ UNCHANGED hEdit
  /\ UNCHANGED <<bufVars, histVars, trayVars, running, frame, wParam, hThread, afterStop>>

\* ShowWindow(hwnd, nCmdShow); UpdateWindow(hwnd); the first WM_SIZE is sent
\* to WindowProc from inside ShowWindow, its kind as nCmdShow asks (shown
\* normal, minimized or maximized), and WinMain goes on when the handler
\* returns.
WinMainShowWindow(kind) ==
  /\ pc["main"] = "ShowWindow"
  /\ wParam' = kind
  /\ pc' = [pc EXCEPT !["main"] = "WM_SIZE"]
  /\ UNCHANGED <<bufVars, histVars, trayVars, running, frame, hEdit, hThread, exitCode, afterStop>>

\* Where WindowProc's return from WM_SIZE leaves the thread of WinMain: in
\* ShowWindow, hence before CreateThread, while no thread handle exists,
\* else in the message loop.
AfterWmSize == IF hThread = "none" THEN "CreateThread" ELSE "GetMessage"

\* hThread = CreateThread(.., RunningLoop, ..); if (hThread == NULL) return 1;
CreateLoopThread ==
  /\ pc["main"] = "CreateThread"
  /\ \E made \in BOOLEAN :
       IF made
       THEN /\ hThread' = "open"
            /\ pc' = [main |-> "GetMessage", loop |-> "test"]
            /\ UNCHANGED exitCode
       ELSE /\ exitCode' = "1"
            /\ pc' = [pc EXCEPT !["main"] = "exited"]
            /\ UNCHANGED hThread
  /\ UNCHANGED <<bufVars, histVars, trayVars, running, frame, wParam, hEdit, afterStop>>

\* The message loop hands a WM_SIZE to WindowProc.
GetSize(kind) ==
  /\ pc["main"] = "GetMessage"
  /\ wParam' = kind
  /\ pc' = [pc EXCEPT !["main"] = "WM_SIZE"]
  /\ UNCHANGED <<bufVars, histVars, trayVars, running, frame, hEdit, hThread, exitCode, afterStop>>

\* case WM_DESTROY: the window and its edit control go, PostQuitMessage(0)
\* makes GetMessage return 0 and the message loop ends.
WmDestroy ==
  /\ pc["main"] = "GetMessage"
  /\ hEdit' = IF hEdit = "valid" THEN "destroyed" ELSE hEdit
  /\ pc' = [pc EXCEPT !["main"] = "stop"]
  /\ UNCHANGED <<bufVars, histVars, trayVars, running, frame, wParam, hThread, exitCode, afterStop>>

\* case WM_SIZE: MoveWindow; SetWindowText(hEdit, textBuffer); then the
\* branch on wParam, which calls AppendText or returns.
WmSizeSetText ==
  /\ pc["main"] = "WM_SIZE"
  /\ \E text \in ReadOn(textBuffer, memory, frame["main"].read) :
       editText' = SetWindowText(text)
  /\ IF wParam = "SIZE_MINIMIZED"
     THEN /\ frame' = [frame EXCEPT !["main"] = [NoFrame EXCEPT !.newText = MinimizeText]]
          /\ pc' = [pc EXCEPT !["main"] = "AppendText"]
          /\ UNCHANGED wParam
     ELSE IF wParam = "SIZE_MAXIMIZED"
     THEN /\ frame' = [frame EXCEPT !["main"] = [NoFrame EXCEPT !.newText = MaximizeText]]
          /\ pc' = [pc EXCEPT !["main"] = "AppendText"]
          /\ UNCHANGED wParam
     ELSE /\ pc' = [pc EXCEPT !["main"] = AfterWmSize]
          /\ wParam' = "none"
          /\ frame' = [frame EXCEPT !["main"] = NoFrame]
  /\ UNCHANGED <<textBuffer, memory, overrun, histVars, trayVars, running, hEdit, hThread,
                 exitCode, afterStop>>

\* AppendText, to the test of line 215: the text is normalized into the
\* scratch buffer and strlen(textBuffer) is read for bufferSpaceLeft.
AppendTextSpace(t) ==
  /\ pc[t] = "AppendText"
  /\ \E behind \in Met(textBuffer, memory) :
       /\ frame' = [frame EXCEPT ![t].formattedText = FormattedText(frame[t].newText),
                                 ![t].bufferSpaceLeft = BufferSpaceLeft(textBuffer, behind)]
       /\ pc' = [pc EXCEPT ![t] =
                   IF HasSpace(BufferSpaceLeft(textBuffer, behind),
                               FormattedText(frame[t].newText))
                   THEN "strncat" ELSE "SetWindowText"]
  /\ UNCHANGED <<bufVars, histVars, trayVars, running, wParam, hEdit, hThread, exitCode, afterStop>>

\* strncat finds the end of textBuffer.
StrnCatSeek(t) ==
  /\ pc[t] = "strncat"
  /\ \E behind \in Met(textBuffer, memory) :
       frame' = [frame EXCEPT ![t].dst = StrLen(textBuffer, behind), ![t].copied = 0]
  /\ pc' = [pc EXCEPT ![t] = "strncat_copy"]
  /\ UNCHANGED <<bufVars, histVars, trayVars, running, wParam, hEdit, hThread, exitCode, afterStop>>

\* strncat stores one byte: the next character while fewer than
\* bufferSpaceLeft are copied and the source lasts, else the closing NUL.
\* A store past the end of the array goes into the memory behind it.  The
\* call is followed as far as that memory is held: a store behind it, or of
\* a character into its last byte, is not taken.
StrnCatStore(t) ==
  /\ pc[t] = "strncat_copy"
  /\ LET f == frame[t]
         at == f.dst + f.copied
     IN /\ overrun' = (overrun \/ at >= TextBufferSize)
        /\ IF f.copied < f.bufferSpaceLeft /\ f.copied < Len(f.formattedText)
           THEN /\ at < MemorySize - 1
                /\ textBuffer' = WriteByte(textBuffer, at, f.formattedText[f.copied + 1])
                /\ memory' = WriteByte(memory, at, f.formattedText[f.copied + 1])
                /\ frame' = [frame EXCEPT ![t].copied = f.copied + 1]
                /\ UNCHANGED pc
           ELSE /\ at <= MemorySize - 1
                /\ textBuffer' = WriteByte(textBuffer, at, NUL)
                /\ memory' = WriteByte(memory, at, NUL)
                /\ pc' = [pc EXCEPT ![t] = "SetWindowText"]
                /\ UNCHANGED frame
  /\ UNCHANGED <<editText, histVars, trayVars, running, wParam, hEdit, hThread, exitCode, afterStop>>

\* A call from RunningLoop's thread into the edit control is a message sent
\* to the window's thread: it is served while that thread waits in
\* GetMessage, and fails at once when the control does not exist.
Served(t) == t = "loop" => (pc["main"] = "GetMessage" \/ hEdit # "valid")

\* SetWindowText(hEdit, textBuffer).  On WinMain's thread the three calls
\* that follow it (GetWindowTextLength, EM_SETSEL, EM_SCROLLCARET) are made
\* at once and AppendText returns into WindowProc, which returns.  For
\* RunningLoop the window's thread reads textBuffer, and RunningLoop waits.
AppendTextSetText(t) ==
  /\ pc[t] = "SetWindowText"
  /\ Served(t)
  /\ \E text \in ReadOn(textBuffer, memory, frame[t].read) :
       editText' = SetWindowText(text)
  /\ frame' = [frame EXCEPT ![t] = NoFrame]
  /\ IF t = "main"
     THEN /\ pc' = [pc EXCEPT ![t] = AfterWmSize]
          /\ wParam' = "none"
     ELSE /\ pc' = [pc EXCEPT ![t] = "GetWindowTextLength"]
          /\ UNCHANGED wParam
  /\ UNCHANGED <<textBuffer, memory, overrun, histVars, trayVars, running, hEdit, hThread,
                 exitCode, afterStop>>

\* RunningLoop's thread in the rest of AppendText: GetWindowTextLength and
\* the two SendMessage calls, each served like SetWindowText and none
\* touching what the threads share, then the return and Sleep(1000).
AppendTextScroll ==
  /\ pc["loop"] = "GetWindowTextLength"
  /\ Served("loop")
  /\ pc' = [pc EXCEPT !["loop"] = "test"]
  /\ afterStop' = IF running THEN afterStop ELSE Min(afterStop + 1, MaxAfterStop)
  /\ UNCHANGED <<bufVars, histVars, trayVars, running, frame, wParam, hEdit, hThread, exitCode>>

\* A loop that never looks at the flag again.
LoopContinuesAlways(flag) == TRUE

\* while (running)
LoopContinues(flag) == flag

\* RunningLoop: the test of the while loop, then the call or the return.
LoopTest ==
  /\ pc["loop"] = "test"
  /\ IF LoopContinues(running)
     THEN /\ frame' = [frame EXCEPT !["loop"] = [NoFrame EXCEPT !.newText = RunningText]]
          /\ pc' = [pc EXCEPT !["loop"] = "AppendText"]
     ELSE /\ pc' = [pc EXCEPT !["loop"] = "returned"]
          /\ UNCHANGED frame
  /\ UNCHANGED <<bufVars, histVars, trayVars, running, wParam, hEdit, hThread, exitCode, afterStop>>

\* running = false;
Stop ==
  /\ pc["main"] = "stop"
  /\ running' = FALSE
  /\ pc' = [pc EXCEPT !["main"] = "wait"]
  /\ UNCHANGED <<bufVars, histVars, trayVars, frame, wParam, hEdit, hThread, exitCode, afterStop>>

\* WaitForSingleObject(hThread, INFINITE);
Wait ==
  /\ pc["main"] = "wait"
  /\ pc["loop"] = "returned"
  /\ pc' = [pc EXCEPT !["main"] = "close"]
  /\ UNCHANGED <<bufVars, histVars, trayVars, running, frame, wParam, hEdit, hThread, exitCode, afterStop>>

\* CloseHandle(hThread); return 0;
CloseHandle ==
  /\ pc["main"] = "close"
  /\ hThread' = "closed"
  /\ exitCode' = "0"
  /\ pc' = [pc EXCEPT !["main"] = "exited"]
  /\ UNCHANGED <<bufVars, histVars, trayVars, running, frame, wParam, hEdit, afterStop>>

NextGui ==
  \/ CreateWindow
  \/ \E kind \in SizeKinds : WinMainShowWindow(kind)
  \/ CreateLoopThread
  \/ \E kind \in SizeKinds : GetSize(kind)
  \/ WmDestroy
  \/ \E to \in 1..(MemorySize - 1) : SetWindowTextRead(to)
  \/ WmSizeSetText
  \/ \E t \in Threads : AppendTextSpace(t)
  \/ \E t \in Threads : StrnCatSeek(t)
  \/ \E t \in Threads : StrnCatStore(t)
  \/ \E t \in Threads : AppendTextSetText(t)
  \/ AppendTextScroll
  \/ LoopTest
  \/ Stop
  \/ Wait
  \/ CloseHandle

SpecGui == InitGui /\ [][NextGui]_vars

(***************************************************************************)
(* SpecTray: systray.c, two threads.  "main" runs main(), the loop that    *)
(* prints the status line; "gui" runs GuiThread and, inside                *)
(* DispatchMessage, WndProc.  They share the flag running.  pc["menu"] is  *)
(* "open" while WndProc's call of TrackPopupMenu (line 125) is on the GUI  *)
(* thread's stack: the menu runs a message loop of its own, and a handler  *)
(* called from it returns into it.  Each step holds one statement that     *)
(* changes a global or the console window.                                 *)
(***************************************************************************)

\* Messages that can wait in the GUI thread's queue.
MaxQueue == 2

\* WM_USER + 1 with lParam = WM_RBUTTONDOWN (a right click on the tray
\* icon), WM_SYSCOMMAND with wParam = SC_MINIMIZE, WM_SIZE, and the close
\* of the hidden window, which DefWindowProc turns into DestroyWindow and
\* WM_DESTROY.
Messages == {"WM_RBUTTONDOWN", "SC_MINIMIZE", "WM_SIZE", "WM_DESTROY"}

\* What TrackPopupMenu returns: WM_USER + 2 (Open), WM_USER + 3 (Exit), or
\* 0 when the menu is dismissed.
MenuItems == {"Open", "Exit", "dismissed"}

\* The state after main has allocated the console and hidden its window
\* (lines 25-30); isMinimized and running hold their initializers.
InitTray ==
  /\ InitBuffer
  /\ InitWindowIdle
  /\ running = TRUE
  /\ exitCode = "none"
  /\ isMinimized = FALSE
  /\ hWndConsole = "hidden"
  /\ nid = "none"
  /\ hWndHidden = "none"
  /\ msgQueue = <<>>
  /\ quitPosted = FALSE
  /\ exitCalls = 0
  /\ lastEvent = NoEvent
  /\ pc = [main |-> "CreateThread", gui |-> "none", menu |-> "closed"]

\* CreateThread(NULL, 0, GuiThread, NULL, 0, NULL); the result is not looked
\* at, and main enters its loop either way.
MainCreateThread ==
  /\ pc["main"] = "CreateThread"
  /\ \E made \in BOOLEAN :
       pc' = [pc EXCEPT !["main"] = "test",
                        !["gui"] = IF made THEN "CreateWindow" ELSE "none"]
  /\ UNCHANGED <<bufVars, histVars, windowVars, running, exitCode, trayVars>>

\* while (running): the test, then printf("Running...\n") or the way out.
MainTest ==
  /\ pc["main"] = "test"
  /\ pc' = [pc EXCEPT !["main"] = IF running THEN "printf" ELSE "FreeConsole"]
  /\ UNCHANGED <<bufVars, histVars, windowVars, running, exitCode, trayVars>>

\* printf("Running...\n"); Sleep(1000);
MainPrintf ==
  /\ pc["main"] = "printf"
  /\ pc' = [pc EXCEPT !["main"] = "test"]
  /\ UNCHANGED <<bufVars, histVars, windowVars, running, exitCode, trayVars>>

\* main, line 42: FreeConsole(); the console is gone, the process and the
\* GUI thread live on.
MainFreeConsole ==
  /\ pc["main"] = "FreeConsole"
  /\ hWndConsole' = "freed"
  /\ pc' = [pc EXCEPT !["main"] = "return"]
  /\ UNCHANGED <<bufVars, histVars, windowVars, running, exitCode, isMinimized, nid,
                 hWndHidden, msgQueue, quitPosted, trayHist>>

\* main, line 43: return 0; the process ends and takes the GUI thread along.
MainReturn ==
  /\ pc["main"] = "return"
  /\ exitCode' = "0"
  /\ pc' = [pc EXCEPT !["main"] = "exited",
                       !["gui"] = IF pc["gui"] \in {"none", "returned", "failed"}
                                  THEN pc["gui"] ELSE "killed"]
  /\ UNCHANGED <<bufVars, histVars, windowVars, running, trayVars>>

\* GuiThread up to its message loop: CreateWindow fails (return 1) or the
\* tray icon is added (SetupTrayIcon) and the menu built (SetupTrayMenu).
GuiCreateWindow ==
  /\ pc["gui"] = "CreateWindow"
  /\ \E made \in BOOLEAN :
       IF made
       THEN /\ hWndHidden' = "valid"
            /\ nid' = "added"
            /\ pc' = [pc EXCEPT !["gui"] = "GetMessage"]
       ELSE /\ hWndHidden' = "null"
            /\ pc' = [pc EXCEPT !["gui"] = "failed"]
            /\ UNCHANGED nid
  /\ UNCHANGED <<bufVars, histVars, windowVars, running, exitCode, isMinimized, hWndConsole,
                 msgQueue, quitPosted, trayHist>>

\* The user or the system posts a message to the hidden window; a click on
\* the tray icon needs the icon.
Post(msg) ==
  /\ exitCode = "none"
  /\ hWndHidden = "valid"
  /\ msg = "WM_RBUTTONDOWN" => nid = "added"
  /\ Len(msgQueue) < MaxQueue
  /\ msgQueue' = Append(msgQueue, msg)
  /\ UNCHANGED <<bufVars, histVars, windowVars, running, exitCode, pc, isMinimized,
                 hWndConsole, nid, hWndHidden, quitPosted, trayHist>>

\* Messages are taken and handed to WndProc by GuiThread's loop and, while
\* the tray menu is open, by the loop TrackPopupMenu runs until it returns.
InMessageLoop == pc["gui"] \in {"GetMessage", "TrackPopupMenu"}

\* The loop a handler returns into.
MessageLoop == IF pc["menu"] = "open" THEN "TrackPopupMenu" ELSE "GetMessage"

\* ShowWindow(hWndConsole, nCmdShow): SW_HIDE hides the window, SW_RESTORE
\* shows it; on the handle of a console already freed the call does nothing.
ShowWindow(window, nCmdShow) ==
  IF window = "freed" THEN window
  ELSE IF nCmdShow = "SW_HIDE" THEN "hidden" ELSE "shown"

\* The calls MinimizeToTray and RestoreFromTray make on the console window.
MinimizeToTrayCalls == <<"ShowWindow(SW_RESTORE)", "ShowWindow(SW_HIDE)">>

RestoreFromTrayCalls == <<"ShowWindow(SW_RESTORE)", "SetForegroundWindow">>

\* MinimizeToTray, line 100: ShowWindow(hWndConsole, SW_RESTORE); the
\* console is on show, whatever it was.
MinimizeToTrayRestore ==
  /\ pc["gui"] = "MinimizeToTray"
  /\ hWndConsole' = ShowWindow(hWndConsole, "SW_RESTORE")
  /\ pc' = [pc EXCEPT !["gui"] = "ShowWindow(SW_HIDE)"]
  /\ UNCHANGED <<bufVars, histVars, windowVars, running, exitCode, isMinimized, nid,
                 hWndHidden, msgQueue, quitPosted, trayHist>>

\* MinimizeToTray, line 101: ShowWindow(hWndConsole, SW_HIDE);
MinimizeToTrayHide ==
  /\ pc["gui"] = "ShowWindow(SW_HIDE)"
  /\ hWndConsole' = ShowWindow(hWndConsole, "SW_HIDE")
  /\ pc' = [pc EXCEPT !["gui"] = "isMinimized = TRUE"]
  /\ UNCHANGED <<bufVars, histVars, windowVars, running, exitCode, isMinimized, nid,
                 hWndHidden, msgQueue, quitPosted, trayHist>>

\* MinimizeToTray, line 102: isMinimized = TRUE; and the return (WndProc
\* returns 0) into the loop that handed the message over.
MinimizeToTraySet ==
  /\ pc["gui"] = "isMinimized = TRUE"
  /\ isMinimized' = TRUE
  /\ pc' = [pc EXCEPT !["gui"] = MessageLoop]
  /\ UNCHANGED <<bufVars, histVars, windowVars, running, exitCode, hWndConsole, nid,
                 hWndHidden, msgQueue, quitPosted, trayHist>>

\* void MinimizeToTray(), statement by statement.
MinimizeToTray == MinimizeToTrayRestore \/ MinimizeToTrayHide \/ MinimizeToTraySet

\* RestoreFromTray, lines 106-107: ShowWindow(hWndConsole, SW_RESTORE);
\* SetForegroundWindow(hWndConsole);
RestoreFromTrayShow ==
  /\ pc["gui"] = "RestoreFromTray"
  /\ hWndConsole' = ShowWindow(hWndConsole, "SW_RESTORE")
  /\ pc' = [pc EXCEPT !["gui"] = "isMinimized = FALSE"]
  /\ UNCHANGED <<bufVars, histVars, windowVars, running, exitCode, isMinimized, nid,
                 hWndHidden, msgQueue, quitPosted, trayHist>>

\* RestoreFromTray, line 108: isMinimized = FALSE; and the return.
RestoreFromTraySet ==
  /\ pc["gui"] = "isMinimized = FALSE"
  /\ isMinimized' = FALSE
  /\ pc' = [pc EXCEPT !["gui"] = MessageLoop]
  /\ UNCHANGED <<bufVars, histVars, windowVars, running, exitCode, hWndConsole, nid,
                 hWndHidden, msgQueue, quitPosted, trayHist>>

\* void RestoreFromTray(), statement by statement.
RestoreFromTray == RestoreFromTrayShow \/ RestoreFromTraySet

\* history: the message WndProc is handed, the state it finds and the calls
\* its handler makes on the console window.
Dispatched(event, calls) ==
  [ event |-> event,
    wasRunning |-> running,
    wasMinimized |-> isMinimized,
    wasConsole |-> hWndConsole,
    afterQuit |-> quitPosted,
    calls |-> calls ]

\* WndProc, default branch: message == WM_SYSCOMMAND && wParam == SC_MINIMIZE;
\* printf("Minimize CLICKED\n") and the call of MinimizeToTray.
WmSysCommand ==
  /\ InMessageLoop
  /\ msgQueue # <<>> /\ Head(msgQueue) = "SC_MINIMIZE"
  /\ msgQueue' = Tail(msgQueue)
  /\ pc' = [pc EXCEPT !["gui"] = "MinimizeToTray"]
  /\ lastEvent' = Dispatched("MinimizeRequested", MinimizeToTrayCalls)
  /\ UNCHANGED <<bufVars, histVars, windowVars, running, exitCode, isMinimized,
                 hWndConsole, nid, hWndHidden, quitPosted, exitCalls>>

\* WndProc, default branch with any other message, here WM_SIZE:
\* return DefWindowProc(hWnd, message, wParam, lParam), which takes the new
\* size of the hidden window and calls nothing of the program.
WmSizeHidden ==
  /\ InMessageLoop
  /\ msgQueue # <<>> /\ Head(msgQueue) = "WM_SIZE"
  /\ msgQueue' = Tail(msgQueue)
  /\ lastEvent' = Dispatched("Resize", <<>>)
  /\ UNCHANGED <<bufVars, histVars, windowVars, running, exitCode, pc, isMinimized,
                 hWndConsole, nid, hWndHidden, quitPosted, exitCalls>>

\* Shell_NotifyIcon(NIM_DELETE, &nid): the icon is removed; with no icon
\* left the call fails and changes nothing.
ShellNotifyIconDelete(icon) == IF icon = "added" THEN "deleted" ELSE icon

\* WndProc, case WM_USER + 1 with lParam == WM_RBUTTONDOWN, up to the call
\* of TrackPopupMenu, which returns only when the menu is closed.  A click
\* handled while the menu is open meets a menu already on show: the inner
\* TrackPopupMenu fails, returns 0, and the inner handler is done.
WmTrayClick ==
  /\ InMessageLoop
  /\ msgQueue # <<>> /\ Head(msgQueue) = "WM_RBUTTONDOWN"
  /\ msgQueue' = Tail(msgQueue)
  /\ IF pc["gui"] = "GetMessage"
     THEN /\ pc' = [pc EXCEPT !["gui"] = "TrackPopupMenu", !["menu"] = "open"]
          /\ UNCHANGED lastEvent
     ELSE /\ lastEvent' = Dispatched("Dismissed", <<>>)
          /\ UNCHANGED pc
  /\ UNCHANGED <<bufVars, histVars, windowVars, running, exitCode, isMinimized,
                 hWndConsole, nid, hWndHidden, quitPosted, exitCalls>>

\* An ExitApplication whose second statement flips the flag.
ExitApplicationStateToggle(icon, flag, quit) ==
  [nid |-> ShellNotifyIconDelete(icon), running |-> ~flag, quitPosted |-> TRUE]

\* The three things ExitApplication assigns, as it leaves them.
ExitApplicationState(icon, flag, quit) ==
  [nid |-> ShellNotifyIconDelete(icon), running |-> FALSE, quitPosted |-> TRUE]

\* WndProc, case WM_USER + 1, from the return of TrackPopupMenu: the menu's
\* loop has taken the posted messages before the user's click, and the item
\* clicked decides; WndProc tests nothing else (lines 127 and 130), so
\* every item can come back in every state.  SendMessage(hWnd, WM_NULL, 0,
\* 0) runs WndProc's default branch and changes nothing.  Open:
\* printf("Open CLICKED\n") and the call of RestoreFromTray.  Exit:
\* printf("Exit CLICKED\n") and the call of ExitApplication.
WmTrayMenu(clicked) ==
  /\ pc["gui"] = "TrackPopupMenu"
  /\ msgQueue = <<>>
  /\ clicked \in MenuItems
  /\ IF clicked = "Open"
     THEN /\ pc' = [pc EXCEPT !["gui"] = "RestoreFromTray", !["menu"] = "closed"]
          /\ lastEvent' = Dispatched("RestoreRequested", RestoreFromTrayCalls)
     ELSE IF clicked = "Exit"
     THEN /\ pc' = [pc EXCEPT !["gui"] = "ExitApplication", !["menu"] = "closed"]
          /\ lastEvent' = Dispatched("ExitRequested", <<>>)
     ELSE /\ pc' = [pc EXCEPT !["gui"] = "GetMessage", !["menu"] = "closed"]
          /\ lastEvent' = Dispatched("Dismissed", <<>>)
  /\ UNCHANGED <<bufVars, histVars, windowVars, running, exitCode, isMinimized,
                 hWndConsole, nid, hWndHidden, quitPosted, msgQueue, exitCalls>>

\* ExitApplication, line 112: Shell_NotifyIcon(NIM_DELETE, &nid);
ExitApplicationDelete ==
  /\ pc["gui"] = "ExitApplication"
  /\ nid' = ExitApplicationState(nid, running, quitPosted).nid
  /\ exitCalls' = exitCalls + 1
  /\ pc' = [pc EXCEPT !["gui"] = "running = FALSE"]
  /\ UNCHANGED <<bufVars, histVars, windowVars, running, exitCode, isMinimized, hWndConsole,
                 hWndHidden, msgQueue, quitPosted, lastEvent>>

\* ExitApplication, line 113: running = FALSE; a plain store that main's
\* while (running) reads with nothing ordering the two.
ExitApplicationStop ==
  /\ pc["gui"] = "running = FALSE"
  /\ running' = ExitApplicationState(nid, running, quitPosted).running
  /\ pc' = [pc EXCEPT !["gui"] = "PostQuitMessage"]
  /\ UNCHANGED <<bufVars, histVars, windowVars, exitCode, trayVars>>

\* ExitApplication, line 114: PostQuitMessage(0); and the return into the
\* message loop.
ExitApplicationQuit ==
  /\ pc["gui"] = "PostQuitMessage"
  /\ quitPosted' = ExitApplicationState(nid, running, quitPosted).quitPosted
  /\ pc' = [pc EXCEPT !["gui"] = MessageLoop]
  /\ UNCHANGED <<bufVars, histVars, windowVars, running, exitCode, isMinimized, hWndConsole,
                 nid, hWndHidden, msgQueue, trayHist>>

\* void ExitApplication(), statement by statement.
ExitApplication == ExitApplicationDelete \/ ExitApplicationStop \/ ExitApplicationQuit

\* WndProc, case WM_DESTROY: PostQuitMessage(0).  The window is gone and
\* the messages still queued for it go with it.
WmDestroyHidden ==
  /\ InMessageLoop
  /\ msgQueue # <<>> /\ Head(msgQueue) = "WM_DESTROY"
  /\ msgQueue' = <<>>
  /\ hWndHidden' = "destroyed"
  /\ quitPosted' = TRUE
  /\ lastEvent' = Dispatched("Destroyed", <<>>)
  /\ UNCHANGED <<bufVars, histVars, windowVars, running, exitCode, pc, isMinimized,
                 hWndConsole, nid, exitCalls>>

\* GetMessage returns 0 once a quit was posted and the queue is empty; the
\* loop ends and GuiThread returns 0.
GuiQuit ==
  /\ pc["gui"] = "GetMessage"
  /\ msgQueue = <<>>
  /\ quitPosted
  /\ pc' = [pc EXCEPT !["gui"] = "returned"]
  /\ UNCHANGED <<bufVars, histVars, windowVars, running, exitCode, trayVars>>

\* The steps of each thread.
MainStep == MainCreateThread \/ MainTest \/ MainPrintf \/ MainFreeConsole \/ MainReturn

\* The GUI thread's own steps; when an open menu returns, and with which
\* item, is the user's step.
GuiStep ==
  \/ GuiCreateWindow
  \/ WmSysCommand
  \/ MinimizeToTray
  \/ WmSizeHidden
  \/ WmTrayClick
  \/ RestoreFromTray
  \/ ExitApplication
  \/ WmDestroyHidden
  \/ GuiQuit

\* What the user or the system does: a message is posted, or an item of the
\* open menu is clicked or the menu dismissed.
UserStep ==
  \/ \E msg \in Messages : Post(msg)
  \/ \E clicked \in MenuItems : WmTrayMenu(clicked)

NextTray ==
  \/ MainStep
  \/ GuiStep
  \/ UserStep

SpecTray == InitTray /\ [][NextTray]_vars

\* Both threads are scheduled again and again; nobody has to post messages
\* or to click in an open menu.
FairSpecTray == SpecTray /\ WF_vars(MainStep) /\ WF_vars(GuiStep)

(***************************************************************************)
(* Claims on AppendText, under SpecAppend.                                 *)
(***************************************************************************)

\* The string in textBuffer and its length while the string ends inside the
\* array (C1 shows it always does under SpecAppend): nothing behind the
\* array is read.
Text(buf) == CStr(buf, <<>>)

Length(buf) == StrLen(buf, <<>>)

\* C1: after every AppendText call, whatever the texts, the string in
\* textBuffer ends inside the array, is at most Capacity long, and no byte
\* was stored past the end of the array.
C1_CapacityInvariant ==
  /\ ~overrun
  /\ Terminated(textBuffer)
  /\ Length(textBuffer) <= Capacity

\* C1 witness: a text longer than the whole buffer was appended to a buffer
\* that already held text.
C1_Witness ==
  /\ lastCall.made
  /\ Len(lastCall.text) > TextBufferSize
  /\ lastCall.before # <<>>

\* C3 as claimed: a text longer than the space left is cut to the space left
\* and fills the buffer.
C3_TruncateToFit ==
  (lastCall.made /\ Len(FormattedText(lastCall.text)) > lastCall.space)
    => Text(textBuffer)
         = lastCall.before \o SubSeq(FormattedText(lastCall.text), 1, lastCall.space)

\* C3 amended: a normalized text at least as long as the space left is
\* dropped whole, the buffer stays as it was, and the buffer is never full.
C3_RejectWhole ==
  /\ (lastCall.made /\ Len(FormattedText(lastCall.text)) >= lastCall.space)
        => Text(textBuffer) = lastCall.before
  /\ Length(textBuffer) < Capacity

\* C3 witness: a call whose normalized text exceeded the space left, with
\* room left for a proper prefix of it.
C3_Witness ==
  /\ lastCall.made
  /\ Len(FormattedText(lastCall.text)) > lastCall.space
  /\ lastCall.space >= 2
  /\ lastCall.before # <<>>

\* C4: every step (an AppendText call that fits, one that does not, a
\* resize that only re-renders) keeps the buffer's contents as a prefix of
\* its contents afterwards.
C4_AppendOnly == [][IsPrefix(Text(textBuffer), Text(textBuffer'))]_vars

\* C4 witness: a non-empty text was appended behind earlier text.
C4_Witness ==
  /\ lastCall.made
  /\ lastCall.accepted
  /\ lastCall.before # <<>>
  /\ Len(Text(textBuffer)) > Len(lastCall.before)

\* C5: as long as no accepted text was cut short, the text rendered after
\* the accepted calls is their texts, each newline turned into CR LF, joined
\* in call order, and an accepted call grows the length by the text's
\* length plus its number of newlines.
C5_SnapshotConsistency ==
  ~lossy =>
    /\ editText = expected
    /\ Text(textBuffer) = expected
    /\ (lastCall.made /\ lastCall.accepted)
          => Length(textBuffer)
               = Len(lastCall.before) + Len(lastCall.text) + NewlineCount(lastCall.text)

\* C5 witness: three cycles of the status line.
C5_Witness ==
  /\ ~lossy
  /\ editText = <<"R", CR, LF, "R", CR, LF, "R", CR, LF>>
  /\ lastCall.made /\ lastCall.accepted /\ lastCall.text = RunningText

\* C19: a call either appends the whole normalized text, as the scratch
\* buffer holds it, or leaves textBuffer byte for byte as it was, never a
\* proper prefix; it appends exactly when the normalized length is strictly
\* below the space left, so a text that would fill the space exactly is
\* dropped and the string never reaches Capacity.
C19_AllOrNothing ==
  /\ lastCall.made =>
        /\ lastCall.accepted <=> Len(FormattedText(lastCall.text)) < lastCall.space
        /\ lastCall.space = Capacity - Len(lastCall.before)
        /\ Text(textBuffer) = IF lastCall.accepted
                              THEN lastCall.before \o FormattedText(lastCall.text)
                              ELSE lastCall.before
        /\ FitsScratch(lastCall.text)
              => FormattedText(lastCall.text) = IdealNormalize(lastCall.text)
  /\ Length(textBuffer) # Capacity

\* C19 witness: the normalized text was exactly as long as the space left,
\* and was dropped.
C19_Witness ==
  /\ lastCall.made
  /\ lastCall.text # <<>>
  /\ FitsScratch(lastCall.text)
  /\ Len(FormattedText(lastCall.text)) = lastCall.space
  /\ Text(textBuffer) = lastCall.before

\* C20: whatever the text, the loop and the NUL stored after it stay inside
\* formattedText (the NUL's index, the length of the scratch string, is at
\* most FormattedSize - 1), and what the scratch buffer holds is the front
\* of the normalized text, the rest being dropped.
C20_ScratchBound ==
  lastCall.made =>
    /\ Len(FormattedText(lastCall.text)) <= FormattedSize - 1
    /\ IsPrefix(FormattedText(lastCall.text), IdealNormalize(lastCall.text))

\* C20 witness: a newline met at the last index the loop admits, which
\* puts the NUL into the last byte of the scratch buffer.
C20_Witness ==
  /\ lastCall.made
  /\ lastCall.text # <<>>
  /\ lastCall.text[Len(lastCall.text)] = LF
  /\ Len(FormattedText(lastCall.text)) = FormattedSize - 1

(***************************************************************************)
(* Claims on the two threads of the window program, under SpecGui.         *)
(***************************************************************************)

\* The lines the program appends, as AppendText normalizes them.
Lines == {FormattedText(RunningText), FormattedText(MinimizeText), FormattedText(MaximizeText)}

RECURSIVE WholeLines(_)
\* s is made of whole appended lines, none cut and none mixed with another.
WholeLines(s) ==
  \/ s = <<>>
  \/ \E w \in Lines : IsPrefix(w, s) /\ WholeLines(SubSeq(s, Len(w) + 1, Len(s)))

\* C2: AppendText and the rendering of textBuffer exclude each other: the
\* text a render shows is made of whole appended lines, and the two threads'
\* free-space tests and writes never take the string past Capacity nor a
\* byte past the array.
C2_MutualExclusion ==
  /\ WholeLines(editText)
  /\ \A behind \in Met(textBuffer, memory) : StrLen(textBuffer, behind) <= Capacity
  /\ ~overrun

\* C6: once running = false has been executed, RunningLoop ends at most one
\* more AppendText call before it returns.
C6_AtMostOneAfterStop == afterStop <= 1

\* C6 witness: RunningLoop has returned after one call that ended after the
\* stop.
C6_Witness == afterStop = 1 /\ pc["loop"] = "returned"

\* C14: when the window or its edit control cannot be created, WinMain
\* returns a code other than 0 and RunningLoop is never started, so nothing
\* is appended.
C14_CreationFailureFatal ==
  /\ (pc["main"] = "exited" /\ hEdit = "none") => exitCode = "1"
  /\ hEdit = "null" =>
        (pc["main"] = "exited" /\ exitCode = "1" /\ pc["loop"] = "none"
         /\ textBuffer[0] = NUL)

\* C15: the thread of RunningLoop never calls into the edit control: it is
\* never at the SetWindowText call.
C15_ThreadConfinement == pc["loop"] # "SetWindowText"

\* No thread is inside AppendText.
AppendPcs == {"AppendText", "strncat", "strncat_copy", "SetWindowText", "GetWindowTextLength"}

NoAppendInProgress == \A t \in Threads : pc[t] \notin AppendPcs

\* WindowProc returns from a WM_SIZE message.
ResizeHandled ==
  /\ pc["main"] \in {"WM_SIZE", "SetWindowText"}
  /\ pc'["main"] \in {"CreateThread", "GetMessage"}

\* The control shows the string a read of buf yields.
Shows(text, buf) == \E behind \in Met(buf, memory) : text = CStr(buf, behind)

\* C17: with the edit control in place, its text equals textBuffer's string
\* whenever no AppendText call is under way, and at the return from every
\* WM_SIZE message, whatever its kind and whatever line it appended.
C17_ResizeRenders ==
  /\ []((hEdit = "valid" /\ NoAppendInProgress) => Shows(editText, textBuffer))
  /\ [][(ResizeHandled /\ hEdit = "valid") => Shows(editText', textBuffer')]_vars

(***************************************************************************)
(* Claims on the tray program, under SpecTray and FairSpecTray.            *)
(***************************************************************************)

\* main's loop has ended: the producer of the status line has stopped.
ProducerStopped == pc["main"] \in {"FreeConsole", "return", "exited"}

\* The tracked visibility: EXITING once running is cleared, else what
\* isMinimized says.
Visibility ==
  IF ~running THEN "EXITING"
  ELSE IF isMinimized THEN "MINIMIZED_TO_TRAY" ELSE "VISIBLE"

\* A terminal event has been dispatched: Exit was clicked in the tray menu
\* (the icon is deleted first) or the hidden window was destroyed.
TerminalDispatched == nid = "deleted" \/ hWndHidden = "destroyed"

\* C7: the tray icon and the console are released, and the process returns,
\* only once the producer has been told to stop and its loop has ended.
C7_ShutdownOrdering ==
  (nid = "deleted" \/ hWndConsole = "freed" \/ exitCode # "none")
    => (~running /\ ProducerStopped)

\* C8: once a terminal event has been dispatched, the producer's loop ends
\* and the process exits.
C8_ShutdownLiveness == TerminalDispatched ~> (ProducerStopped /\ exitCode # "none")

\* C9: after the hidden window's WM_DESTROY the program is where the tray
\* menu's Exit leaves it: running cleared, the tray icon deleted, the quit
\* posted.
C9_DestroyedIsExit ==
  hWndHidden = "destroyed" => (~running /\ nid = "deleted" /\ quitPosted)

\* C10: in every state the console window is shown exactly when the tracked
\* visibility is VISIBLE.
C10_ShownIffVisible == (hWndConsole = "shown") <=> (Visibility = "VISIBLE")

\* The tracked visibility the last handled message found.
VisibilityBefore ==
  IF ~lastEvent.wasRunning THEN "EXITING"
  ELSE IF lastEvent.wasMinimized THEN "MINIMIZED_TO_TRAY" ELSE "VISIBLE"

\* The last handled message left the tracked visibility and the console
\* window as they were and made no call on the console window.
HandledAsNoOp ==
  /\ Visibility = VisibilityBefore
  /\ hWndConsole = lastEvent.wasConsole
  /\ lastEvent.calls = <<>>

\* C11: a restore request handled while the visibility is VISIBLE, and a
\* minimize request handled while it is MINIMIZED_TO_TRAY, change neither
\* the visibility nor the console window and make no call on the window.
C11_InvalidTransitionNoOp ==
  /\ (lastEvent.event = "RestoreRequested" /\ VisibilityBefore = "VISIBLE")
        => HandledAsNoOp
  /\ (lastEvent.event = "MinimizeRequested" /\ VisibilityBefore = "MINIMIZED_TO_TRAY")
        => HandledAsNoOp

\* The GUI thread is inside ExitApplication.
InExitApplication == pc["gui"] \in {"ExitApplication", "running = FALSE", "PostQuitMessage"}

\* C12: the tray menu's Exit moves the visibility to EXITING, and over any
\* sequence of events ExitApplication, the stop signal and the release of
\* the tray icon, is run exactly once: once it is run after an Exit, with
\* the icon released and the flag cleared (and the quit posted unless main
\* has seen the cleared flag and ended the process first), and it is never
\* run a second time.
C12_ShutdownExactlyOnce ==
  /\ exitCalls <= 1
  /\ (lastEvent.event = "ExitRequested" /\ ~InExitApplication)
        => (exitCalls = 1 /\ Visibility = "EXITING" /\ nid = "deleted")
  /\ (exitCalls = 1 /\ ~InExitApplication)
        => (~running /\ nid = "deleted" /\ (quitPosted \/ pc["gui"] = "killed"))

\* The GUI thread executes a statement of a second or later run of
\* ExitApplication.
SecondShutdownStep ==
  /\ InExitApplication
  /\ pc'["gui"] \notin {pc["gui"], "killed"}
  /\ exitCalls' >= 2

\* C13: when ExitApplication is run a second time, none of its statements
\* changes what the first run left (the flag cleared, the icon released,
\* the quit posted; the minimized flag and the console window untouched),
\* so that two runs leave what one run leaves.
C13_IdempotentShutdown ==
  /\ [][SecondShutdownStep
          => UNCHANGED <<running, nid, quitPosted, isMinimized, hWndConsole>>]_vars
  /\ [](exitCalls >= 2 => (~running /\ nid = "deleted" /\ quitPosted))

\* C13 witness: ExitApplication has run twice, to its end.
C13_Witness ==
  /\ exitCalls = 2
  /\ pc["gui"] \in {"GetMessage", "returned"}
  /\ ~running /\ nid = "deleted" /\ quitPosted

\* C16: once Exit or the destruction of the window has been handled (the
\* quit is posted), WndProc is handed no further message, and once the
\* visibility is EXITING no handler changes it or the console window.
C16_ExitIsTerminal ==
  /\ ~lastEvent.afterQuit
  /\ VisibilityBefore = "EXITING" => HandledAsNoOp

\* C18: a WM_SIZE handled while the visibility is MINIMIZED_TO_TRAY leaves
\* the visibility and the hidden console as they were, and whenever a
\* statement turns the hidden console shown, the message being handled is
\* the restore request.
C18_ResizeKeepsHidden ==
  /\ []((lastEvent.event = "Resize" /\ VisibilityBefore = "MINIMIZED_TO_TRAY")
          => (Visibility = "MINIMIZED_TO_TRAY" /\ hWndConsole = "hidden"
              /\ lastEvent.calls = <<>>))
  /\ [][(hWndConsole = "hidden" /\ hWndConsole' = "shown")
          => lastEvent.event = "RestoreRequested"]_vars

====
